---- MODULE Spec2Model ----
(***************************************************************************)
(* Model of src/app.py: a design-to-schema synchronisation service.  The   *)
(* live schema (SQLite file database_designer.db) and the Design Store     *)
(* (table table_designs_simple of design_storage.db) are its two stores.   *)
(*                                                                         *)
(*   Spec   the executions where requests are served one at a time: a      *)
(*          whole handler is one action, the Design Store always writable; *)
(*   SpecF  the same, where a write to the Design Store may fail;          *)
(*   SpecC  the handlers run as threads of the server (app.run serves      *)
(*          every request on its own thread and no handler takes a lock),  *)
(*          one action per SQL statement;                                  *)
(*   SpecH  requests to one table, the reply before the last one kept;     *)
(*   Spec2  Spec with requests to two tables and the read of a table;      *)
(*   SpecD  Spec with fields that carry a default, and the read.           *)
(*                                                                         *)
(* Rows are not modelled, nor are table comments (save_table_comment       *)
(* writes a table the service never creates and swallows the error).       *)
(***************************************************************************)
EXTENDS Integers, Sequences, FiniteSets, TLC

VARIABLES
    live,       \* database_designer.db: table name -> its columns, if it exists
    designs,    \* table_designs_simple: table name -> its Design Record, if any
    storeInit,  \* whether table_designs_simple has been created
    resp,       \* the reply to the last request: handler, table, status, error
    log,        \* what the request replied to last printed about a failed
                \* design write
    prev,       \* SpecH: the reply to the request before the last one
    pc,         \* SpecC: the statement each thread is about to execute
    loc         \* SpecC: the locals of each thread's handler

vars == <<live, designs, storeInit, resp, log, prev, pc, loc>>

(* ------------------------------ bounds -------------------------------- *)

\* longest field list of a request body
MaxFields == 2
\* longest field list a stored Design Record may grow to through add_field
MaxDesignLen == 3
\* the same for the threads of SpecC
MaxConcDesignLen == 3
\* longest field list of a request body where two tables are addressed
MaxFields2 == 1

(* ------------------------------ inputs -------------------------------- *)

\* the table names of the catalog
Tables == {"t1", "t2"}
\* the tables the requests of Spec, SpecF and SpecC address
SpecTables == {"t1"}
FieldNames == {"a", "b"}
Types == {"INTEGER"}
\* the 'default' key of a field: absent, or the one value it carries
NoDefault == <<>>
\* a field of a request body; the one without a name is the malformed case
Field ==
    {[name |-> "a", type |-> "INTEGER", primary |-> TRUE, default |-> NoDefault],
     [name |-> "a", type |-> "INTEGER", primary |-> FALSE, default |-> NoDefault],
     [name |-> "b", type |-> "INTEGER", primary |-> TRUE, default |-> NoDefault],
     [name |-> "", type |-> "INTEGER", primary |-> FALSE, default |-> NoDefault]}
\* the field lists of request bodies: every list of at most MaxFields fields
FieldLists == UNION {[1..n -> Field] : n \in 0..MaxFields}
\* a request body without its 'table' or 'field' key, or with an empty dict
\* under it: the dict with no key
NoBody == <<>>
\* the designs of request bodies for the tables TS; no statement built from a
\* design without a name is accepted whatever its fields are, so one such
\* design stands for all
Bodies(TS) == [name : TS, fields : FieldLists] \cup {[name |-> "", fields |-> <<>>]}

Threads == {1, 2}

(* --------------------------- the two stores --------------------------- *)

NoTable == [exists |-> FALSE, cols |-> <<>>]
NoDesign == [exists |-> FALSE, fields |-> <<>>]
NoResp == [op |-> "none", table |-> "", status |-> 0, error |-> "none"]
\* the locals of a thread that serves no request
NoField == [name |-> "", type |-> "", primary |-> FALSE, default |-> NoDefault]
Idle ==
    [op |-> "", path |-> "", table |-> "", field |-> NoField, fields |-> <<>>,
     row |-> NoDesign, seen |-> <<>>]

\* sqlite_master lookup: SELECT name FROM sqlite_master WHERE name=?
TableExists(lv, t) == t \in DOMAIN lv /\ lv[t].exists

\* SELECT design_data FROM table_designs_simple WHERE table_name=?
DesignRow(ds, t) == IF t \in DOMAIN ds THEN ds[t] ELSE NoDesign

(* ----------------------- the engine's view of DDL --------------------- *)

\* "{name} {type}": with an empty name the engine reads the type word as
\* the column name and the column has no declared type
ColName(f) == IF f.name = "" THEN f.type ELSE f.name
ColType(f) == IF f.name = "" THEN "" ELSE f.type

\* `if field.get('default')`: the DEFAULT clause is emitted for a value that
\* is true in a condition, which the number 0 is not; the engine keeps the
\* literal of the clause as the column's dflt_value
DefaultClause(f) ==
    IF f.default # NoDefault /\ f.default[1] # 0 THEN f.default ELSE NoDefault

\* primary_keys: the names of the fields marked primary, in field order
primary_keys(fields) ==
    LET P == SelectSeq(fields, LAMBDA f : f.primary)
    IN [i \in DOMAIN P |-> P[i].name]

\* rank of field i in the PRIMARY KEY clause (PRAGMA table_info's pk), 0 if
\* the field is not part of the key
PkRank(fields, i) ==
    IF fields[i].primary
    THEN Cardinality({j \in 1..i : fields[j].primary})
    ELSE 0

\* the columns the engine creates for CREATE TABLE t (<fields>, PRIMARY KEY..)
Columns(fields) ==
    [i \in DOMAIN fields |->
        [name |-> ColName(fields[i]), type |-> ColType(fields[i]),
         pk |-> PkRank(fields, i), dflt |-> DefaultClause(fields[i])]]

\* does the engine accept the CREATE TABLE statement built from the design
CreateAccepted(name, fields) ==
    /\ name # ""
    /\ Len(fields) > 0
    /\ \A i \in DOMAIN fields : fields[i].primary => fields[i].name # ""
    /\ \A i, j \in DOMAIN fields :
          ColName(fields[i]) = ColName(fields[j]) => i = j

\* does the engine accept ALTER TABLE t ADD COLUMN {name} {type}
AlterAccepted(lv, t, f) ==
    /\ TableExists(lv, t)
    /\ \A i \in DOMAIN lv[t].cols : lv[t].cols[i].name # ColName(f)

\* the column ADD COLUMN appends: no PRIMARY KEY clause is ever emitted
AddedColumn(f) ==
    [name |-> ColName(f), type |-> ColType(f), pk |-> 0, dflt |-> DefaultClause(f)]

(* ------------------------------ helpers ------------------------------- *)

\* a create_actual_table without the DROP: CREATE fails on an existing table
create_actual_table_keep(lv, table_design) ==
    IF ~TableExists(lv, table_design.name)
       /\ CreateAccepted(table_design.name, table_design.fields)
    THEN [ok |-> TRUE,
          live |-> [lv EXCEPT ![table_design.name] =
                       [exists |-> TRUE, cols |-> Columns(table_design.fields)]]]
    ELSE [ok |-> FALSE, live |-> lv]

\* create_actual_table: DROP the table when it exists, then CREATE it; the
\* DROP is committed on its own, so a rejected CREATE leaves no table
create_actual_table(lv, table_design) ==
    LET table_name == table_design.name
        dropped == IF TableExists(lv, table_name)
                   THEN [lv EXCEPT ![table_name] = NoTable] ELSE lv
    IN IF CreateAccepted(table_name, table_design.fields)
       THEN [ok |-> TRUE,
             live |-> [dropped EXCEPT ![table_name] =
                          [exists |-> TRUE, cols |-> Columns(table_design.fields)]]]
       ELSE [ok |-> FALSE, live |-> dropped]

\* a save_table_design whose REPLACE is not keyed: it rewrites every record
save_table_design_all(ds, table_design, fault) ==
    IF fault THEN ds
    ELSE [t \in DOMAIN ds |-> [exists |-> TRUE, fields |-> table_design.fields]]

\* save_table_design: INSERT OR REPLACE keyed by the design's name; every
\* exception is printed and swallowed
save_table_design(ds, table_design, fault) ==
    IF fault THEN ds
    ELSE [ds EXCEPT ![table_design.name] =
             [exists |-> TRUE, fields |-> table_design.fields]]

\* an update_design_after_field_change that writes the list back as read
ChangedFieldsNone(fields, operation, field_data) == fields

\* the position of the first field called field_name, 0 when there is none
FieldIndex(fields, field_name) ==
    LET I == {i \in DOMAIN fields : fields[i].name = field_name}
    IN IF I = {} THEN 0 ELSE CHOOSE i \in I : \A j \in I : i <= j

\* the new field list update_design_after_field_change computes: 'add'
\* appends field_data, 'delete' drops every field of its name, 'update' puts
\* field_data (which carries old_name) in the place of the first field
\* called old_name, any other operation changes nothing
ChangedFields(fields, operation, field_data) ==
    IF operation = "add" THEN Append(fields, field_data)
    ELSE IF operation = "delete"
         THEN SelectSeq(fields, LAMBDA f : f.name # field_data.name)
    ELSE IF operation = "update"
         THEN LET i == FieldIndex(fields, field_data.old_name)
              IN IF i = 0 THEN fields ELSE [fields EXCEPT ![i] = field_data]
    ELSE fields

\* a delete_field that rebuilds the table from the whole field list
RemainingFieldsAll(fields, field_name) == fields

\* line 457 of delete_field: the fields whose name is not field_name
RemainingFields(fields, field_name) ==
    SelectSeq(fields, LAMBDA f : f.name # field_name)

\* update_design_after_field_change: rewrite the record when there is one
update_design_after_field_change(ds, t, operation, field_data, fault) ==
    IF fault \/ ~DesignRow(ds, t).exists THEN ds
    ELSE [ds EXCEPT ![t].fields = ChangedFields(@, operation, field_data)]

\* get_table_structure: the Table Structure read from PRAGMA table_info;
\* a column is reported as primary key when its pk rank is 1
get_table_structure(lv, t) ==
    LET cols == IF TableExists(lv, t) THEN lv[t].cols ELSE <<>>
        info == [i \in DOMAIN cols |->
                    [name |-> cols[i].name, type |-> cols[i].type,
                     default_value |-> cols[i].dflt,
                     primary_key |-> (cols[i].pk = 1)]]
        pks == SelectSeq(info, LAMBDA c : c.primary_key)
    IN [name |-> t, columns |-> info,
        primary_keys |-> [i \in DOMAIN pks |-> pks[i].name]]

(* ------------------------------- Init --------------------------------- *)

Init ==
    /\ live = [t \in Tables |-> NoTable]
    /\ designs = [t \in Tables |-> NoDesign]
    /\ storeInit = FALSE
    /\ resp = NoResp
    /\ log = "none"
    /\ prev = NoResp
    /\ pc = [p \in Threads |-> "idle"]
    /\ loc = [p \in Threads |-> Idle]

Reply(op, t, status, error) ==
    resp' = [op |-> op, table |-> t, status |-> status, error |-> error]

(* -------- the handlers served one at a time, one action per request ---- *)

\* save_table_design, lines 207-231: whether table_designs_simple exists
\* after the call. CREATE TABLE IF NOT EXISTS (line 212) is committed as it
\* runs; a write that fails does so at that statement, and leaves the store
\* as it was, or at the INSERT OR REPLACE of line 223 or the commit of line
\* 228, and leaves the table of designs behind without the record; nothing
\* drops the table of designs once it exists
StoreAfterSave(si, called, fault) ==
    IF si THEN {TRUE}
    ELSE IF ~called THEN {FALSE}
    ELSE IF fault THEN {FALSE, TRUE}
    ELSE {TRUE}

\* a create_table that records the design whatever create_actual_table says
create_table_store_always(ds, success, table_design, fault) ==
    save_table_design(ds, table_design, fault)

\* lines 195-200 of create_table: the Design Store is written only when
\* create_actual_table reported success
create_table_store(ds, success, table_design, fault) ==
    IF success THEN save_table_design(ds, table_design, fault) ELSE ds

\* POST /api/tables
create_table(table_design, fault) ==
    /\ UNCHANGED <<pc, loc>>
    /\ IF table_design = NoBody \/ table_design.name = ""
       THEN /\ ~fault
            /\ Reply("create_table", "", 400, "incomplete")
            /\ log' = "none"
            /\ UNCHANGED <<live, designs, storeInit>>
       ELSE LET r == create_actual_table(live, table_design)
            IN /\ fault => r.ok
               /\ live' = r.live
               /\ designs' = create_table_store(designs, r.ok, table_design, fault)
               /\ storeInit' \in StoreAfterSave(storeInit, r.ok, fault)
               /\ log' = IF r.ok /\ fault THEN "save_failed" ELSE "none"
               /\ IF r.ok
                  THEN Reply("create_table", table_design.name, 200, "none")
                  ELSE Reply("create_table", table_design.name, 400, "create_failed")

\* lines 259-264 of update_table, as in create_table
update_table_store(ds, success, table_design, fault) ==
    IF success THEN save_table_design(ds, table_design, fault) ELSE ds

\* PUT /api/tables/<table_name>
update_table(table_name, table_design, fault) ==
    /\ UNCHANGED <<pc, loc>>
    /\ IF table_design = NoBody
       THEN /\ ~fault
            /\ Reply("update_table", table_name, 400, "empty")
            /\ log' = "none"
            /\ UNCHANGED <<live, designs, storeInit>>
       ELSE IF ~TableExists(live, table_name)
       THEN /\ ~fault
            /\ Reply("update_table", table_name, 404, "table_missing")
            /\ log' = "none"
            /\ UNCHANGED <<live, designs, storeInit>>
       ELSE LET r == create_actual_table(live, table_design)
            IN /\ fault => r.ok
               /\ live' = r.live
               /\ designs' = update_table_store(designs, r.ok, table_design, fault)
               /\ storeInit' \in StoreAfterSave(storeInit, r.ok, fault)
               /\ log' = IF r.ok /\ fault THEN "save_failed" ELSE "none"
               /\ IF r.ok
                  THEN Reply("update_table", table_name, 200, "none")
                  ELSE Reply("update_table", table_name, 400, "create_failed")

\* DELETE /api/tables/<table_name>
delete_table(table_name, fault) ==
    /\ UNCHANGED <<pc, loc, storeInit>>
    /\ log' = "none"
    /\ IF ~TableExists(live, table_name)
       THEN /\ ~fault
            /\ Reply("delete_table", table_name, 404, "table_missing")
            /\ UNCHANGED <<live, designs>>
       ELSE /\ live' = [live EXCEPT ![table_name] = NoTable]
            /\ IF fault \/ ~storeInit
               THEN /\ Reply("delete_table", table_name, 500, "exception")
                    /\ UNCHANGED designs
               ELSE /\ designs' = [designs EXCEPT ![table_name] = NoDesign]
                    /\ Reply("delete_table", table_name, 200, "none")

\* lines 363-364 of add_field: the body has a field and the field a name
Named(field_design) == field_design # NoBody /\ field_design.name # ""

\* POST /api/tables/<table_name>/fields
add_field(table_name, field_design, fault) ==
    /\ UNCHANGED <<pc, loc, storeInit>>
    /\ fault => (Named(field_design) /\ AlterAccepted(live, table_name, field_design))
    \* the stored field list grows no longer than MaxDesignLen
    /\ (Named(field_design) /\ AlterAccepted(live, table_name, field_design))
          => Len(designs[table_name].fields) < MaxDesignLen
    /\ IF ~Named(field_design)
       THEN /\ Reply("add_field", table_name, 400, "incomplete")
            /\ log' = "none"
            /\ UNCHANGED <<live, designs>>
       ELSE IF ~TableExists(live, table_name)
       THEN /\ Reply("add_field", table_name, 404, "table_missing")
            /\ log' = "none"
            /\ UNCHANGED <<live, designs>>
       ELSE IF ~AlterAccepted(live, table_name, field_design)
       THEN /\ Reply("add_field", table_name, 500, "exception")
            /\ log' = "none"
            /\ UNCHANGED <<live, designs>>
       ELSE /\ live' = [live EXCEPT ![table_name].cols =
                                        Append(@, AddedColumn(field_design))]
            /\ designs' = update_design_after_field_change(
                              designs, table_name, "add", field_design,
                              fault \/ ~storeInit)
            /\ log' = IF fault \/ ~storeInit THEN "update_failed" ELSE "none"
            /\ Reply("add_field", table_name, 200, "none")

\* DELETE /api/tables/<table_name>/fields/<field_name>
delete_field(table_name, field_name) ==
    /\ UNCHANGED <<pc, loc, storeInit, designs>>
    /\ log' = "none"
    /\ IF ~storeInit
       THEN /\ Reply("delete_field", table_name, 500, "exception")
            /\ UNCHANGED live
       ELSE IF ~DesignRow(designs, table_name).exists
       THEN /\ Reply("delete_field", table_name, 404, "design_missing")
            /\ UNCHANGED live
       ELSE LET fields == RemainingFields(designs[table_name].fields, field_name)
                r == create_actual_table(live, [name |-> table_name, fields |-> fields])
            IN /\ live' = r.live
               /\ IF r.ok
                  THEN Reply("delete_field", table_name, 200, "none")
                  ELSE Reply("delete_field", table_name, 400, "create_failed")

\* PUT /api/tables/<table_name>/fields/<field_name>
update_field(table_name, field_name, new_field_data) ==
    /\ UNCHANGED <<pc, loc, storeInit, designs>>
    /\ log' = "none"
    /\ IF new_field_data = NoBody
       THEN /\ Reply("update_field", table_name, 400, "empty")
            /\ UNCHANGED live
       ELSE IF ~storeInit
       THEN /\ Reply("update_field", table_name, 500, "exception")
            /\ UNCHANGED live
       ELSE IF ~DesignRow(designs, table_name).exists
       THEN /\ Reply("update_field", table_name, 404, "design_missing")
            /\ UNCHANGED live
       ELSE IF FieldIndex(designs[table_name].fields, field_name) = 0
       THEN /\ Reply("update_field", table_name, 404, "field_missing")
            /\ UNCHANGED live
       ELSE LET i == FieldIndex(designs[table_name].fields, field_name)
                fields == [designs[table_name].fields EXCEPT ![i] = new_field_data]
                r == create_actual_table(live, [name |-> table_name, fields |-> fields])
            IN /\ live' = r.live
               /\ IF r.ok
                  THEN Reply("update_field", table_name, 200, "none")
                  ELSE Reply("update_field", table_name, 400, "create_failed")

\* GET /api/tables/<table_name>: get_table_structure never returns None for
\* a table name (PRAGMA table_info of an absent table has no rows), so the
\* reply carries get_table_structure(live, table_name) whenever the Design
\* Store can be read
get_table_detail(table_name) ==
    /\ UNCHANGED <<live, designs, storeInit, pc, loc>>
    /\ log' = "none"
    /\ IF ~storeInit
       THEN Reply("get_table_detail", table_name, 500, "exception")
       ELSE Reply("get_table_detail", table_name, 200, "none")

\* the statements of POST /api/execute-sql bodies for the tables TS with
\* columns drawn from F: no statement, a SELECT on sqlite_master, DROP TABLE
\* t, ALTER TABLE t RENAME TO u, and for a field f the CREATE TABLE t (f)
\* that create_actual_table builds and the ALTER TABLE t ADD COLUMN f that
\* add_field builds
NoSql == [kind |-> "", table |-> "", fields |-> <<>>, to |-> ""]
SqlStatements(TS, F) ==
    {NoSql, [NoSql EXCEPT !.kind = "select"]}
        \cup [kind : {"drop"}, table : TS, fields : {<<>>}, to : {""}]
        \cup [kind : {"create", "add_column"}, table : TS,
              fields : {<<f>> : f \in F}, to : {""}]
        \cup {q \in [kind : {"rename"}, table : TS, fields : {<<>>}, to : TS] :
                 q.table # q.to}

\* c.execute(sql), line 531: what the engine does with the statement
Execute(lv, sql) ==
    IF sql.kind = "select" THEN [ok |-> TRUE, live |-> lv]
    ELSE IF sql.kind = "create"
    THEN IF ~TableExists(lv, sql.table) /\ CreateAccepted(sql.table, sql.fields)
         THEN [ok |-> TRUE,
               live |-> [lv EXCEPT ![sql.table] =
                            [exists |-> TRUE, cols |-> Columns(sql.fields)]]]
         ELSE [ok |-> FALSE, live |-> lv]
    ELSE IF sql.kind = "drop"
    THEN IF TableExists(lv, sql.table)
         THEN [ok |-> TRUE, live |-> [lv EXCEPT ![sql.table] = NoTable]]
         ELSE [ok |-> FALSE, live |-> lv]
    ELSE IF sql.kind = "add_column"
    THEN IF AlterAccepted(lv, sql.table, sql.fields[1])
         THEN [ok |-> TRUE,
               live |-> [lv EXCEPT ![sql.table].cols =
                            Append(@, AddedColumn(sql.fields[1]))]]
         ELSE [ok |-> FALSE, live |-> lv]
    ELSE IF sql.kind = "rename"
    THEN IF TableExists(lv, sql.table) /\ sql.to \in DOMAIN lv
            /\ ~TableExists(lv, sql.to)
         THEN [ok |-> TRUE,
               live |-> [lv EXCEPT ![sql.to] = lv[sql.table],
                                   ![sql.table] = NoTable]]
         ELSE [ok |-> FALSE, live |-> lv]
    ELSE [ok |-> FALSE, live |-> lv]

\* POST /api/execute-sql: any statement, run on the live schema only
execute_sql(sql) ==
    /\ UNCHANGED <<designs, storeInit, pc, loc>>
    /\ log' = "none"
    /\ IF sql = NoSql
       THEN /\ Reply("execute_sql", "", 400, "empty")
            /\ UNCHANGED live
       ELSE LET r == Execute(live, sql)
            IN /\ live' = r.live
               /\ IF r.ok
                  THEN Reply("execute_sql", "", 200, "none")
                  ELSE Reply("execute_sql", "", 500, "exception")

\* the history of replies: with H the reply before the last one is kept
History(H) == prev' = IF H THEN resp ELSE prev

\* every request addressed to the tables TS, with a design drawn from B, a
\* field drawn from F or a statement drawn from Q in its body; FT says
\* whether the request's write to the Design Store may fail (a locked or
\* unwritable design_storage.db), at any statement of the write
Requests(TS, B, F, FT, H, Q) ==
    \/ \E d \in B \cup {NoBody}, fault \in FT :
          create_table(d, fault) /\ History(H)
    \/ \E t \in TS, d \in B \cup {NoBody}, fault \in FT :
          update_table(t, d, fault) /\ History(H)
    \/ \E t \in TS, fault \in FT : delete_table(t, fault) /\ History(H)
    \/ \E t \in TS, f \in F \cup {NoBody}, fault \in FT :
          add_field(t, f, fault) /\ History(H)
    \/ \E t \in TS, fn \in FieldNames : delete_field(t, fn) /\ History(H)
    \/ \E t \in TS, fn \in FieldNames, f \in F \cup {NoBody} :
          update_field(t, fn, f) /\ History(H)
    \/ \E sql \in Q : execute_sql(sql) /\ History(H)

\* the designs of request bodies for the tables TS, with at most N fields
\* drawn from F
DesignsOf(TS, F, N) ==
    [name : TS, fields : UNION {[1..n -> F] : n \in 0..N}]
        \cup {[name |-> "", fields |-> <<>>]}

\* a key column and a plain column
Field2 ==
    {[name |-> "a", type |-> "INTEGER", primary |-> TRUE, default |-> NoDefault],
     [name |-> "b", type |-> "INTEGER", primary |-> FALSE, default |-> NoDefault]}

\* the requests served one at a time, the Design Store always writable
Next ==
    Requests(SpecTables, Bodies(SpecTables), Field, {FALSE}, FALSE,
             SqlStatements(SpecTables, Field))

Spec == Init /\ [][Next]_vars

\* a key column, a plain column and the field without a name
FieldF ==
    Field2 \cup {[name |-> "", type |-> "INTEGER", primary |-> FALSE,
                  default |-> NoDefault]}
\* the requests served one at a time, with writes to the Design Store that
\* may fail
NextF ==
    Requests(SpecTables, DesignsOf(SpecTables, FieldF, MaxFields), FieldF,
             BOOLEAN, FALSE, SqlStatements(SpecTables, FieldF))

SpecF == Init /\ [][NextF]_vars


(* ------------------- two tables, and fields with defaults ------------- *)

\* the plain column: the field of the field requests of Spec2
FieldB == {f \in Field2 : ~f.primary}

\* every request, reads included, addressed to either table; the body of a
\* PUT may name another table than its path; the statements create no table
\* and add no column
Next2 ==
    \/ Requests(Tables, DesignsOf(Tables, Field2, MaxFields2), FieldB, {FALSE},
                FALSE, SqlStatements(Tables, {}))
    \/ \E t \in Tables : get_table_detail(t) /\ History(FALSE)

Spec2 == Init /\ [][Next2]_vars

\* a key column, and a column with the default 0 or the default 1
FieldD ==
    {[name |-> "a", type |-> "INTEGER", primary |-> TRUE, default |-> NoDefault],
     [name |-> "b", type |-> "INTEGER", primary |-> FALSE, default |-> <<0>>],
     [name |-> "b", type |-> "INTEGER", primary |-> FALSE, default |-> <<1>>]}

\* every request, reads included, with fields that carry defaults
NextD ==
    \/ Requests(SpecTables, DesignsOf(SpecTables, FieldD, MaxFields), FieldD,
                {FALSE}, FALSE, SqlStatements(SpecTables, FieldD))
    \/ \E t \in SpecTables : get_table_detail(t) /\ History(FALSE)

SpecD == Init /\ [][NextD]_vars

\* the requests to one table with the fields of Field2, remembering the
\* reply to the request before
NextH ==
    Requests(SpecTables, DesignsOf(SpecTables, Field2, MaxFields), Field2,
             {FALSE}, TRUE, SqlStatements(SpecTables, Field2))

SpecH == Init /\ [][NextH]_vars

(* ------------- the handlers as threads, one step per statement -------- *)

\* the designs and fields the concurrent requests carry: a table with a key
\* column, a body without a name, two further columns to add or to put in the
\* place of another, the field names of the paths, and the statements
ConcBodies ==
    {[name |-> "t1",
      fields |-> <<[name |-> "id", type |-> "INTEGER", primary |-> TRUE,
                    default |-> NoDefault]>>],
     [name |-> "", fields |-> <<>>]}
ConcFields ==
    {[name |-> "a", type |-> "INTEGER", primary |-> FALSE, default |-> NoDefault],
     [name |-> "b", type |-> "INTEGER", primary |-> FALSE, default |-> NoDefault]}

ConcNames == {"a", "id"}
ConcSql == SqlStatements(SpecTables, {})

Goto(p, label, l) == pc' = [pc EXCEPT ![p] = label] /\ loc' = [loc EXCEPT ![p] = l]

\* the handler of thread p returns: its reply, and what it printed
Return(p, status, error, printed) ==
    /\ pc' = [pc EXCEPT ![p] = "idle"]
    /\ loc' = [loc EXCEPT ![p] = Idle]
    /\ log' = printed
    /\ Reply(loc[p].op, loc[p].path, status, error)

\* create_table, lines 186-190: the request arrives and is validated
ct_begin(p, table_design) ==
    /\ pc[p] = "idle"
    /\ UNCHANGED prev
    /\ UNCHANGED <<live, designs, storeInit>>
    /\ IF table_design = NoBody \/ table_design.name = ""
       THEN /\ Reply("create_table", "", 400, "incomplete")
            /\ log' = "none"
            /\ UNCHANGED <<pc, loc>>
       ELSE /\ Goto(p, "ct_check", [Idle EXCEPT !.op = "create_table",
                                                !.path = table_design.name,
                                                !.table = table_design.name,
                                                !.fields = table_design.fields])
            /\ UNCHANGED <<resp, log>>

\* update_table, lines 238-250: the request arrives and the table named in
\* the path is looked up in sqlite_master
ut_begin(p, table_name, table_design) ==
    /\ pc[p] = "idle"
    /\ UNCHANGED prev
    /\ UNCHANGED <<live, designs, storeInit>>
    /\ IF table_design = NoBody
       THEN /\ Reply("update_table", table_name, 400, "empty")
            /\ log' = "none"
            /\ UNCHANGED <<pc, loc>>
       ELSE IF ~TableExists(live, table_name)
       THEN /\ Reply("update_table", table_name, 404, "table_missing")
            /\ log' = "none"
            /\ UNCHANGED <<pc, loc>>
       ELSE /\ Goto(p, "ct_check", [Idle EXCEPT !.op = "update_table",
                                                !.path = table_name,
                                                !.table = table_design.name,
                                                !.fields = table_design.fields])
            /\ UNCHANGED <<resp, log>>

\* delete_field, lines 444-457: the request arrives, the Design Record is
\* read and the field is taken out of the list read
df_read(p, table_name, field_name) ==
    /\ pc[p] = "idle"
    /\ UNCHANGED prev
    /\ UNCHANGED <<live, designs, storeInit>>
    /\ IF ~storeInit
       THEN /\ Reply("delete_field", table_name, 500, "exception")
            /\ log' = "none"
            /\ UNCHANGED <<pc, loc>>
       ELSE IF ~DesignRow(designs, table_name).exists
       THEN /\ Reply("delete_field", table_name, 404, "design_missing")
            /\ log' = "none"
            /\ UNCHANGED <<pc, loc>>
       ELSE /\ Goto(p, "ct_check",
                    [Idle EXCEPT !.op = "delete_field",
                                 !.path = table_name,
                                 !.table = table_name,
                                 !.fields = RemainingFields(
                                     designs[table_name].fields, field_name)])
            /\ UNCHANGED <<resp, log>>

\* update_field, lines 475-501: the request arrives, the Design Record is
\* read and the field is replaced in the list read
uf_read(p, table_name, field_name, new_field_data) ==
    /\ pc[p] = "idle"
    /\ UNCHANGED prev
    /\ UNCHANGED <<live, designs, storeInit>>
    /\ IF new_field_data = NoBody
       THEN /\ Reply("update_field", table_name, 400, "empty")
            /\ log' = "none"
            /\ UNCHANGED <<pc, loc>>
       ELSE IF ~storeInit
       THEN /\ Reply("update_field", table_name, 500, "exception")
            /\ log' = "none"
            /\ UNCHANGED <<pc, loc>>
       ELSE IF ~DesignRow(designs, table_name).exists
       THEN /\ Reply("update_field", table_name, 404, "design_missing")
            /\ log' = "none"
            /\ UNCHANGED <<pc, loc>>
       ELSE IF FieldIndex(designs[table_name].fields, field_name) = 0
       THEN /\ Reply("update_field", table_name, 404, "field_missing")
            /\ log' = "none"
            /\ UNCHANGED <<pc, loc>>
       ELSE LET i == FieldIndex(designs[table_name].fields, field_name)
            IN /\ Goto(p, "ct_check",
                       [Idle EXCEPT !.op = "update_field",
                                    !.path = table_name,
                                    !.table = table_name,
                                    !.fields = [designs[table_name].fields
                                                   EXCEPT ![i] = new_field_data]])
               /\ UNCHANGED <<resp, log>>

\* create_actual_table, lines 61-62: is the table in sqlite_master
ct_check(p) ==
    /\ pc[p] = "ct_check"
    /\ UNCHANGED prev
    /\ UNCHANGED <<live, designs, storeInit, log, resp>>
    /\ Goto(p, IF TableExists(live, loc[p].table) THEN "ct_drop" ELSE "ct_create",
            loc[p])

\* create_actual_table, line 64: DROP TABLE, an error when it is gone by now
ct_drop(p) ==
    /\ pc[p] = "ct_drop"
    /\ UNCHANGED prev
    /\ UNCHANGED <<designs, storeInit>>
    /\ IF TableExists(live, loc[p].table)
       THEN /\ live' = [live EXCEPT ![loc[p].table] = NoTable]
            /\ Goto(p, "ct_create", loc[p])
            /\ UNCHANGED <<resp, log>>
       ELSE /\ UNCHANGED live
            /\ Return(p, 400, "create_failed", "none")

\* create_actual_table, line 105: CREATE TABLE, an error when the statement
\* is malformed or the table exists by now; create_table and update_table go
\* on to save_table_design, delete_field and update_field reply
ct_create(p) ==
    /\ pc[p] = "ct_create"
    /\ UNCHANGED prev
    /\ UNCHANGED <<designs, storeInit>>
    /\ IF ~TableExists(live, loc[p].table)
          /\ CreateAccepted(loc[p].table, loc[p].fields)
       THEN /\ live' = [live EXCEPT ![loc[p].table] =
                           [exists |-> TRUE, cols |-> Columns(loc[p].fields)]]
            /\ IF loc[p].op \in {"create_table", "update_table"}
               THEN Goto(p, "ct_save", loc[p]) /\ UNCHANGED <<resp, log>>
               ELSE Return(p, 200, "none", "none")
       ELSE /\ UNCHANGED live
            /\ Return(p, 400, "create_failed", "none")

\* save_table_design, lines 212-220, called by create_table (line 198) and
\* update_table (line 262): CREATE TABLE IF NOT EXISTS table_designs_simple,
\* committed when executed
ct_save(p) ==
    /\ pc[p] = "ct_save"
    /\ UNCHANGED prev
    /\ UNCHANGED <<live, designs, resp, log>>
    /\ storeInit' = TRUE
    /\ Goto(p, "ct_insert", loc[p])

\* save_table_design, lines 223-229: INSERT OR REPLACE the Design Record,
\* then the handler replies
ct_insert(p) ==
    /\ pc[p] = "ct_insert"
    /\ UNCHANGED prev
    /\ UNCHANGED <<live, storeInit>>
    /\ designs' = save_table_design(
                      designs, [name |-> loc[p].table, fields |-> loc[p].fields],
                      FALSE)
    /\ Return(p, 200, "none", "none")

\* delete_table, lines 274-280: the request arrives and the table is looked
\* up in sqlite_master
dt_begin(p, table_name) ==
    /\ pc[p] = "idle"
    /\ UNCHANGED prev
    /\ UNCHANGED <<live, designs, storeInit>>
    /\ IF ~TableExists(live, table_name)
       THEN /\ Reply("delete_table", table_name, 404, "table_missing")
            /\ log' = "none"
            /\ UNCHANGED <<pc, loc>>
       ELSE /\ Goto(p, "dt_drop", [Idle EXCEPT !.op = "delete_table",
                                               !.path = table_name,
                                               !.table = table_name])
            /\ UNCHANGED <<resp, log>>

\* delete_table, line 283: DROP TABLE, an error when it is gone by now
dt_drop(p) ==
    /\ pc[p] = "dt_drop"
    /\ UNCHANGED prev
    /\ UNCHANGED <<designs, storeInit>>
    /\ IF TableExists(live, loc[p].table)
       THEN /\ live' = [live EXCEPT ![loc[p].table] = NoTable]
            /\ Goto(p, "dt_delete", loc[p])
            /\ UNCHANGED <<resp, log>>
       ELSE /\ UNCHANGED live
            /\ Return(p, 500, "exception", "none")

\* delete_table, lines 286-295: DELETE the Design Record and reply
dt_delete(p) ==
    /\ pc[p] = "dt_delete"
    /\ UNCHANGED prev
    /\ UNCHANGED <<live, storeInit>>
    /\ IF ~storeInit
       THEN /\ UNCHANGED designs
            /\ Return(p, 500, "exception", "none")
       ELSE /\ designs' = [designs EXCEPT ![loc[p].table] = NoDesign]
            /\ Return(p, 200, "none", "none")

\* add_field, lines 360-364: the request arrives and is validated
af_begin(p, table_name, field_design) ==
    /\ pc[p] = "idle"
    /\ UNCHANGED prev
    /\ UNCHANGED <<live, designs, storeInit>>
    /\ IF ~Named(field_design)
       THEN /\ Reply("add_field", table_name, 400, "incomplete")
            /\ log' = "none"
            /\ UNCHANGED <<pc, loc>>
       ELSE /\ Goto(p, "af_check", [Idle EXCEPT !.op = "add_field",
                                                !.path = table_name,
                                                !.table = table_name,
                                                !.field = field_design])
            /\ UNCHANGED <<resp, log>>

\* add_field, lines 367-372: is the table in sqlite_master; the lookup is
\* the first statement of the connection, which loads the schema, and the
\* connection keeps the columns it saw for its next statement
af_check(p) ==
    /\ pc[p] = "af_check"
    /\ UNCHANGED prev
    /\ UNCHANGED <<live, designs, storeInit>>
    /\ IF TableExists(live, loc[p].table)
       THEN /\ Goto(p, "af_alter",
                    [loc[p] EXCEPT !.seen = live[loc[p].table].cols])
            /\ UNCHANGED <<resp, log>>
       ELSE Return(p, 404, "table_missing", "none")

\* the engine rejects ADD COLUMN while parsing it when the schema the
\* connection holds has a column of that name ('duplicate column name'),
\* whatever the table looks like by now
SeenDuplicate(seen, f) == \E i \in DOMAIN seen : seen[i].name = ColName(f)

\* add_field, lines 375-393: ALTER TABLE ADD COLUMN on the same connection;
\* a statement that parses is run against the schema as it is by now
af_alter(p) ==
    /\ pc[p] = "af_alter"
    /\ UNCHANGED prev
    /\ UNCHANGED <<designs, storeInit>>
    /\ IF ~SeenDuplicate(loc[p].seen, loc[p].field)
          /\ AlterAccepted(live, loc[p].table, loc[p].field)
       THEN /\ live' = [live EXCEPT ![loc[p].table].cols =
                                        Append(@, AddedColumn(loc[p].field))]
            /\ Goto(p, "ud_read", [loc[p] EXCEPT !.seen = <<>>])
            /\ UNCHANGED <<resp, log>>
       ELSE /\ UNCHANGED live
            /\ Return(p, 500, "exception", "none")

\* update_design_after_field_change, lines 409-412: read the Design Record;
\* without one nothing is written and add_field replies
ud_read(p) ==
    /\ pc[p] = "ud_read"
    /\ UNCHANGED prev
    \* the stored field list grows no longer than MaxConcDesignLen
    /\ Len(designs[loc[p].table].fields) < MaxConcDesignLen
    /\ UNCHANGED <<live, designs, storeInit>>
    /\ IF storeInit /\ DesignRow(designs, loc[p].table).exists
       THEN /\ Goto(p, "ud_write", [loc[p] EXCEPT !.row = designs[loc[p].table]])
            /\ UNCHANGED <<resp, log>>
       ELSE Return(p, 200, "none", IF storeInit THEN "none" ELSE "update_failed")

\* update_design_after_field_change, lines 413-432: UPDATE the record with
\* the field list computed from the one read, then add_field replies
ud_write(p) ==
    /\ pc[p] = "ud_write"
    /\ UNCHANGED prev
    /\ UNCHANGED <<live, storeInit>>
    /\ designs' = IF designs[loc[p].table].exists
                  THEN [designs EXCEPT ![loc[p].table].fields =
                           ChangedFields(loc[p].row.fields, "add", loc[p].field)]
                  ELSE designs
    /\ Return(p, 200, "none", "none")

\* execute_sql, lines 516-554, served by thread p: one statement
es_execute(p, sql) ==
    /\ pc[p] = "idle"
    /\ UNCHANGED prev
    /\ execute_sql(sql)

NextC ==
    \E p \in Threads :
        \/ \E d \in ConcBodies \cup {NoBody} : ct_begin(p, d)
        \/ \E t \in SpecTables, d \in ConcBodies \cup {NoBody} : ut_begin(p, t, d)
        \/ \E t \in SpecTables, fn \in ConcNames : df_read(p, t, fn)
        \/ \E t \in SpecTables, fn \in ConcNames, f \in ConcFields \cup {NoBody} :
              uf_read(p, t, fn, f)
        \/ ct_check(p)
        \/ ct_drop(p)
        \/ ct_create(p)
        \/ ct_save(p)
        \/ ct_insert(p)
        \/ \E t \in SpecTables : dt_begin(p, t)
        \/ dt_drop(p)
        \/ dt_delete(p)
        \/ \E t \in SpecTables, f \in ConcFields \cup {NoBody} : af_begin(p, t, f)
        \/ af_check(p)
        \/ af_alter(p)
        \/ ud_read(p)
        \/ ud_write(p)
        \/ \E sql \in ConcSql : es_execute(p, sql)

SpecC == Init /\ [][NextC]_vars

(* ------------------------------ the claims ---------------------------- *)

CreateOrReplaceOps == {"create_table", "update_table"}
RebuildOps == CreateOrReplaceOps \cup {"delete_field", "update_field"}
MutatingOps == RebuildOps \cup {"add_field"}

\* what the two stores say about table t
LiveColumnNames(t) == {live[t].cols[i].name : i \in DOMAIN live[t].cols}
LivePrimaryKeys(t) ==
    {live[t].cols[i].name : i \in {j \in DOMAIN live[t].cols : live[t].cols[j].pk > 0}}
NamesOf(fields) == {fields[i].name : i \in DOMAIN fields}
PrimaryOf(fields) == {fields[i].name : i \in {j \in DOMAIN fields : fields[j].primary}}
NamesOfSeq(names) == {names[i] : i \in DOMAIN names}

\* a valid Design: at least one field, no empty and no repeated field name
ValidFields(fields) ==
    /\ Len(fields) > 0
    /\ \A i \in DOMAIN fields : fields[i].name # ""
    /\ \A i, j \in DOMAIN fields : fields[i].name = fields[j].name => i = j

\* C1: whenever a mutating operation on table T reports success, the live
\* table's column names are the field names of T's Design Record and the
\* live primary key is the set of fields that record marks primary.
C1_CrossStoreConsistent ==
    (resp.op \in MutatingOps /\ resp.status = 200) =>
        /\ LiveColumnNames(resp.table) = NamesOf(designs[resp.table].fields)
        /\ LivePrimaryKeys(resp.table) = PrimaryOf(designs[resp.table].fields)

\* C2: right after a successful CreateOrReplace of a valid Design D (the
\* Design Record now holds D), Describe(D.name) reports D's field names as
\* its columns and exactly D's primary fields as primary_keys.
C2_DescribeMatchesDesign ==
    (/\ resp.op \in CreateOrReplaceOps
     /\ resp.status = 200
     /\ ValidFields(designs[resp.table].fields)) =>
        LET ts == get_table_structure(live, resp.table)
        IN /\ NamesOf(ts.columns) = NamesOf(designs[resp.table].fields)
           /\ NamesOfSeq(ts.primary_keys) = PrimaryOf(designs[resp.table].fields)

\* C3: mutating operations on one table are serialized, so the Design an
\* AddField persists is computed from the Design stored at that moment: its
\* write keeps every field the Design Record holds (two concurrent AddField
\* calls leave both fields in the stored Design).
C3_ConcurrentAddsKeepFields ==
    [][\A p \in Threads :
          (pc[p] = "ud_write" /\ pc'[p] = "idle") =>
              NamesOf(designs[loc[p].table].fields)
                  \subseteq NamesOf(designs'[loc[p].table].fields)]_vars

\* C4: CreateOrReplace of a Design with no field, with a field without a
\* name or with a repeated field name fails before any I/O: no table is
\* dropped or created and the Design Store is unchanged.
C4_InvalidDesignTouchesNothing ==
    [][\A d \in Bodies(SpecTables) :
          (d.name # "" /\ ~ValidFields(d.fields) /\ create_table(d, FALSE)) =>
              (resp'.status # 200 /\ live' = live /\ designs' = designs)]_vars

\* C5: whenever the engine rejects a statement of a CreateOrReplace (POST
\* tables or PUT tables/{name}), the operation reports failure and the
\* Design Store is exactly as it was before the operation.
C5_RejectedCreateLeavesStore ==
    [][(resp'.op \in CreateOrReplaceOps /\ resp'.error = "create_failed") =>
          (resp'.status # 200 /\ designs' = designs /\ storeInit' = storeInit)]_vars

\* a PUT the engine rejected, with a Design Record in the store
C5_Witness ==
    /\ resp.op = "update_table"
    /\ resp.error = "create_failed"
    /\ resp.status = 400
    /\ designs[resp.table].exists
    /\ Len(designs[resp.table].fields) = 2

\* C6: every CreateOrReplace, RemoveField or UpdateField changes both the
\* live schema and the Design Record or neither of them, and a rebuild whose
\* CREATE statement fails leaves the previous live table as it was.
C6_AllOrNothing ==
    [][resp'.op \in RebuildOps =>
          /\ (live' # live) <=> (designs' # designs)
          /\ resp'.error = "create_failed" => live' = live]_vars

\* C7: whenever the DDL of a mutating operation succeeds and the write of
\* the new Design fails, the operation does not report success: it reports
\* an outcome that is neither success nor the engine's rejection.
C7_PersistFailureReported ==
    log # "none" =>
        (resp.status # 200 /\ resp.error \notin {"none", "create_failed"})

\* C8: in every reachable state the field names of each stored Design
\* Record are pairwise distinct.
C8_DesignNamesDistinct ==
    \A t \in Tables :
        \A i, j \in DOMAIN designs[t].fields :
            designs[t].fields[i].name = designs[t].fields[j].name => i = j

\* C9: AddField of a field whose name the stored Design already holds is
\* rejected, and neither the live table nor the stored Design changes.
C9_DuplicateFieldRejected ==
    [][\A t \in SpecTables, f \in Field :
          (/\ f.name \in NamesOf(designs[t].fields)
           /\ add_field(t, f, FALSE)) =>
              (resp'.status # 200 /\ live' = live /\ designs' = designs)]_vars

\* C10: RemoveField of a name the stored Design does not hold fails with
\* FieldNotFound (a 404 reply) and mutates nothing.
C10_RemoveAbsentFieldFails ==
    [][\A t \in SpecTables, fn \in FieldNames :
          (/\ designs[t].exists
           /\ fn \notin NamesOf(designs[t].fields)
           /\ delete_field(t, fn)) =>
              (resp'.status = 404 /\ live' = live /\ designs' = designs)]_vars

\* C11: RemoveField or UpdateField on a table with no Design Record fails
\* with DesignNotFound (the 404 reply of a missing design), whether or not a
\* live table exists, creates no Design Record and leaves the live schema
\* as it was.
C11_NoDesignMeansDesignNotFound ==
    [][\A t \in SpecTables, fn \in FieldNames, f \in FieldF :
          (/\ ~designs[t].exists
           /\ (delete_field(t, fn) \/ update_field(t, fn, f))) =>
              (/\ resp'.status = 404
               /\ resp'.error = "design_missing"
               /\ designs' = designs
               /\ live' = live)]_vars

\* the field list without its last entry, and that entry
Front(fields) == SubSeq(fields, 1, Len(fields) - 1)
Last(fields) == fields[Len(fields)]

\* the last two requests were a successful CreateOrReplace of table t and a
\* successful AddField to t of a field whose name the created Design (the
\* stored field list without the appended field) does not hold
CreatedThenAdded(t) ==
    /\ prev.op \in CreateOrReplaceOps /\ prev.status = 200 /\ prev.table = t
    /\ resp.op = "add_field" /\ resp.status = 200 /\ resp.table = t
    /\ designs[t].exists /\ Len(designs[t].fields) > 1
    /\ Last(designs[t].fields).name \notin NamesOf(Front(designs[t].fields))

\* C12: for a table T created by CreateOrReplace(D) of a valid Design D and
\* a field f whose name is not in D, a successful AddField(T, f) followed by
\* a successful RemoveField(T, f.name) leaves the live table with exactly
\* the column names of D.
C12_AddThenRemoveRestores ==
    [][\A t \in SpecTables :
          (/\ CreatedThenAdded(t)
           /\ ValidFields(Front(designs[t].fields))
           /\ delete_field(t, Last(designs[t].fields).name)
           /\ resp'.status = 200) =>
              LiveColumnNames(t)' = NamesOf(Front(designs[t].fields))]_vars

\* a table created with a key column a, a column b added and removed again
C12_Witness ==
    /\ prev.op = "add_field" /\ prev.status = 200
    /\ resp.op = "delete_field" /\ resp.status = 200
    /\ NamesOf(designs[resp.table].fields) = {"a", "b"}
    /\ LiveColumnNames(resp.table) = {"a"}

\* C13: after a successful UpdateField(T, fieldName, newField) the stored
\* field list of T is the previous list with the entry named fieldName
\* replaced by newField at the same position; UpdateField of a name the
\* stored Design does not hold fails with FieldNotFound and rebuilds nothing.
C13_UpdateFieldInPlace ==
    [][\A t \in SpecTables, fn \in FieldNames, f \in Field :
          LET i == FieldIndex(designs[t].fields, fn)
          IN (designs[t].exists /\ update_field(t, fn, f)) =>
                 IF i = 0
                 THEN /\ resp'.status = 404 /\ resp'.error = "field_missing"
                      /\ live' = live /\ designs' = designs
                 ELSE resp'.status = 200 =>
                          designs'[t].fields = [designs[t].fields EXCEPT ![i] = f]]_vars

\* C14: after a successful AddField(T, field) on a table with a Design
\* Record, the stored field list is the previous list with field appended as
\* its last entry, and the live table is altered in place: it keeps every
\* column it had, in place and unchanged, and gains one column at the end.
C14_AddFieldAppends ==
    [][\A t \in SpecTables, f \in Field :
          (/\ designs[t].exists
           /\ resp'.status = 200
           /\ add_field(t, f, FALSE)) =>
              /\ designs'[t].fields = Append(designs[t].fields, f)
              /\ live'[t].exists
              /\ Len(live'[t].cols) = Len(live[t].cols) + 1
              /\ SubSeq(live'[t].cols, 1, Len(live[t].cols)) = live[t].cols
              /\ Last(live'[t].cols).name = f.name]_vars

\* a field b was added to a table whose design held the key column a
C14_Witness ==
    /\ resp.op = "add_field" /\ resp.status = 200
    /\ designs[resp.table].exists
    /\ Len(designs[resp.table].fields) = 2
    /\ designs[resp.table].fields[1].name = "a"
    /\ Last(designs[resp.table].fields).name = "b"
    /\ Len(live[resp.table].cols) = 2
    /\ Last(live[resp.table].cols).name = "b"

\* C15: whenever Drop(T) reports success the live table T is absent and no
\* Design Record for T exists, and whenever Drop drops the live table T the
\* Design Record of T is deleted with it: no record of a table dropped
\* through Drop is left in the state after the operation.
C15_DropDeletesDesign ==
    [][\A t \in SpecTables, fault \in BOOLEAN :
          delete_table(t, fault) =>
              /\ resp'.status = 200 => (~live'[t].exists /\ ~designs'[t].exists)
              /\ (live[t].exists /\ ~live'[t].exists) => ~designs'[t].exists]_vars

\* C16: a successful PUT tables/{name} is a CreateOrReplace keyed to the
\* path name: whatever name the body carries, the table rebuilt and the
\* Design Record written are those of the path name, and no table or Design
\* Record under another name is created, replaced or dropped.
C16_PutKeyedToPathName ==
    [][\A t \in Tables, d \in DesignsOf(Tables, Field2, MaxFields2) :
          (update_table(t, d, FALSE) /\ resp'.status = 200) =>
              /\ live'[t].exists
              /\ ValidFields(d.fields) => LiveColumnNames(t)' = NamesOf(d.fields)
              /\ designs'[t] = [exists |-> TRUE, fields |-> d.fields]
              /\ \A u \in Tables \ {t} :
                    live'[u] = live[u] /\ designs'[u] = designs[u]]_vars

\* C17: Describe(tableName), and with it GET tables/{name}, replies
\* TableNotFound (404) for every table name the live catalog does not hold;
\* it never replies with a Table Structure for an absent table.
C17_DescribeAbsentIsNotFound ==
    [][\A t \in Tables :
          (~TableExists(live, t) /\ get_table_detail(t)) =>
              (resp'.status = 404 /\ resp'.error = "table_missing")]_vars

\* Describe(t) reports the column of field f with the default f carries
DescribesDefault(lv, t, f) ==
    LET ts == get_table_structure(lv, t)
    IN \E i \in DOMAIN ts.columns :
          /\ ts.columns[i].name = f.name
          /\ ts.columns[i].default_value = f.default

\* C18: the statements built for CreateOrReplace and AddField carry a
\* DEFAULT clause for every field whose default is set, the literal 0
\* included: after a successful AddField or POST tables with such a field,
\* Describe reports that column with that default.
C18_DefaultIsEmitted ==
    [][/\ \A t \in SpecTables, f \in FieldD :
             (f.default # NoDefault /\ add_field(t, f, FALSE) /\ resp'.status = 200)
                 => DescribesDefault(live', t, f)
       /\ \A d \in DesignsOf(SpecTables, FieldD, MaxFields) :
             (create_table(d, FALSE) /\ resp'.status = 200) =>
                 \A i \in DOMAIN d.fields :
                     d.fields[i].default # NoDefault
                         => DescribesDefault(live', d.name, d.fields[i])]_vars

\* the last request was a successful CreateOrReplace of Design d
JustCreated(d) ==
    /\ resp.op \in CreateOrReplaceOps /\ resp.status = 200
    /\ resp.table = d.name
    /\ designs[d.name] = [exists |-> TRUE, fields |-> d.fields]

\* C19: CreateOrReplace is idempotent in schema shape: for every valid
\* Design D, applying CreateOrReplace(D) again right after CreateOrReplace(D)
\* succeeds and yields the same Table Structure (columns, order, primary
\* keys) and the same stored Design as the first application did.
C19_CreateTwiceSameShape ==
    [][\A d \in DesignsOf(SpecTables, Field2, MaxFields) :
          (/\ d.name # "" /\ ValidFields(d.fields)
           /\ JustCreated(d)
           /\ (create_table(d, FALSE) \/ update_table(d.name, d, FALSE))) =>
              /\ resp'.status = 200
              /\ get_table_structure(live', d.name) = get_table_structure(live, d.name)
              /\ designs' = designs]_vars

\* two successful creates of the table in a row, of a design with the key
\* column a and the column b
C19_Witness ==
    /\ prev.op \in CreateOrReplaceOps /\ prev.status = 200
    /\ resp.op \in CreateOrReplaceOps /\ resp.status = 200
    /\ prev.table = resp.table
    /\ Len(designs[resp.table].fields) = 2
    /\ ValidFields(designs[resp.table].fields)
    /\ Len(get_table_structure(live, resp.table).columns) = 2
    /\ get_table_structure(live, resp.table).primary_keys = <<"a">>

\* a POST tables, AddField, RemoveField, UpdateField or Drop addressed to t
AddressedTo(t) ==
    \/ \E d \in DesignsOf({t}, Field2, MaxFields2) :
          d.name = t /\ create_table(d, FALSE)
    \/ \E f \in FieldB : add_field(t, f, FALSE)
    \/ \E fn \in FieldNames : delete_field(t, fn)
    \/ \E fn \in FieldNames, f \in FieldB : update_field(t, fn, f)
    \/ delete_table(t, FALSE)

\* C20: isolation between table names: a POST tables, AddField, RemoveField,
\* UpdateField or Drop addressed to table T leaves the live table and the
\* Design Record of every other table as they were, whether the operation
\* succeeds or fails (each of these requests names T in its reply).
C20_OtherTablesUntouched ==
    [][\A t \in Tables : \A u \in Tables \ {t} :
          (resp'.table = t /\ AddressedTo(t)) =>
              (live'[u] = live[u] /\ designs'[u] = designs[u])]_vars

\* a table was created, changed or dropped, or a request for it failed,
\* while the other table exists with a Design Record of two fields
C20_Witness ==
    \E t \in Tables : \E u \in Tables \ {t} :
        /\ resp.op \in {"create_table", "add_field", "delete_field",
                        "update_field", "delete_table"}
        /\ resp.table = t
        /\ live[u].exists /\ Len(live[u].cols) = 2
        /\ designs[u].exists /\ Len(designs[u].fields) = 2

====
